---- MODULE Spec2Model ----
(***************************************************************************)
(* A model of pybind11_mkdoc/doxygen_trans.py: the translation of Doxygen  *)
(* comments into docstrings (DoxygenTranslator.translate) and the type     *)
(* substitution and bracket rewriting it ends with (cpp2python).           *)
(*                                                                         *)
(* A text is a sequence of one-character strings, so that the regular      *)
(* expressions of the source are modelled by what they match, character    *)
(* by character.  Positions are 1-based; a match is described by the       *)
(* position that follows it (0: no match).                                 *)
(***************************************************************************)
EXTENDS Integers, Sequences, FiniteSets, TLC

VARIABLES
    type_substitutions,     \* the keys of the class attribute DoxygenTranslator.type_substitutions, in order
    translators,            \* the DoxygenTranslator instances constructed so far (their constructor flags)
    pc,                     \* "idle" | "loop" (inside translate's for loop) | "done" (translate has returned)
    self,                   \* translate: the instance translate runs on
    comment,                \* translate: its argument
    sections,               \* translate: the sections the comment was split into
    idx,                    \* translate: the number of sections the loop has processed
    reformated,             \* translate: the result so far
    previous_section_type,  \* translate: 0 for None, else the index of a section type
    warned,                 \* the tags warnings.warn was called with during this translate, in order
    trace,                  \* history: what the loop did with each section processed
    calls,                  \* history: the calls of translate that returned: instance, comment, result
    text,                   \* cpp2python: its argument
    spans,                  \* cpp2python: the substituted text split on '>'
    span_i,                 \* cpp2python: the number of spans the loop has processed
    depth,                  \* cpp2python: the depth counter
    rebracketed_text,       \* cpp2python: the result so far
    opened,                 \* history: the number of '<' rewritten to '[' so far
    closed,                 \* history: the number of '>' rewritten to ']' so far
    closes                  \* history: for each '>' met, the depth it was met at and what was emitted for it

vars == <<type_substitutions, translators, pc, self, comment, sections, idx, reformated,
          previous_section_type, warned, trace, calls, text, spans, span_i, depth,
          rebracketed_text, opened, closed, closes>>

translate_vars == <<self, comment, sections, idx, reformated, previous_section_type, warned, trace>>

cpp_vars == <<text, spans, span_i, depth, rebracketed_text, opened, closed, closes>>

----------------------------------------------------------------------------
(* Characters and the string methods the source uses. *)

Whitespace == {" ", "\t", "\n", "\r", "\f"}

\* The character U+0060, which a TLA+ string cannot hold.
BackQuote == "U+0060"

LowerLetters == <<"a", "b", "c", "d", "e", "f", "g", "h", "i", "j", "k", "l", "m", "n", "o", "p", "q", "r", "s", "t", "u", "v", "w", "x", "y", "z">>

UpperLetters == <<"A", "B", "C", "D", "E", "F", "G", "H", "I", "J", "K", "L", "M", "N", "O", "P", "Q", "R", "S", "T", "U", "V", "W", "X", "Y", "Z">>

DigitChars == <<"0", "1", "2", "3", "4", "5", "6", "7", "8", "9">>

Range(s) == {s[k] : k \in 1..Len(s)}

WordChars == Range(LowerLetters) \cup Range(UpperLetters) \cup Range(DigitChars) \cup {"_"}

ScopeChars == WordChars \cup Whitespace \cup {"<", ">"}

Min(S) == CHOOSE x \in S : \A y \in S : x <= y

\* F applied to the value of x: a Python statement `v = x` followed by what uses v
\* (x is evaluated once, before F).
With(x, F(_)) == CHOOSE r \in {F(v) : v \in {x}} : TRUE

upper_char(c) ==
    IF c \in Range(LowerLetters)
    THEN UpperLetters[CHOOSE k \in 1..Len(LowerLetters) : LowerLetters[k] = c]
    ELSE c

lower_char(c) ==
    IF c \in Range(UpperLetters)
    THEN LowerLetters[CHOOSE k \in 1..Len(UpperLetters) : UpperLetters[k] = c]
    ELSE c

str_upper(t) == [k \in 1..Len(t) |-> upper_char(t[k])]

str_lower(t) == [k \in 1..Len(t) |-> lower_char(t[k])]

capitalize(t) == IF t = <<>> THEN t ELSE <<upper_char(t[1])>> \o str_lower(Tail(t))

Drop(t, i) == SubSeq(t, i, Len(t))

HasAt(lit, t, i) ==
    /\ i + Len(lit) - 1 <= Len(t)
    /\ \A k \in 1..Len(lit) : t[i + k - 1] = lit[k]

\* The first position from i on whose character is not in S (Len(t) + 1: none).
SkipWhile(S, t, i) == Min({j \in i..(Len(t) + 1) : j = Len(t) + 1 \/ t[j] \notin S})

\* The first position from i on whose character is in S (Len(t) + 1: none).
SkipUntil(S, t, i) == Min({j \in i..(Len(t) + 1) : j = Len(t) + 1 \/ t[j] \in S})

FirstAlt(alts, t, i) ==
    LET ok == {a \in 1..Len(alts) : HasAt(alts[a], t, i)}
    IN  IF ok = {} THEN 0 ELSE Min(ok)

\* The first position from i on where lit occurs (0: none).
Find(lit, t, i) ==
    LET at == {j \in i..Len(t) : HasAt(lit, t, j)}
    IN  IF at = {} THEN 0 ELSE Min(at)

Contains(lit, t) == Find(lit, t, 1) # 0

RECURSIVE Flatten(_)
Flatten(ss) == IF ss = <<>> THEN <<>> ELSE Head(ss) \o Flatten(Tail(ss))

Count(c, t) == Cardinality({k \in 1..Len(t) : t[k] = c})

NoMatch == [end |-> 0, repl |-> <<>>]

----------------------------------------------------------------------------
(* The regular expressions of the source, each as the match it finds when *)
(* anchored at position i of t.                                            *)

\* One alternative of a type_substitutions key, read as the regular expression it is:
\* a character followed by `*` matches any number of that character, greedily.
RECURSIVE literal_end(_, _, _, _)
literal_end(alt, k, t, i) ==
    IF k > Len(alt) THEN i
    ELSE IF k < Len(alt) /\ alt[k + 1] = "*"
         THEN literal_end(alt, k + 2, t, SkipWhile({alt[k]}, t, i))
    ELSE IF i <= Len(t) /\ t[i] = alt[k] THEN literal_end(alt, k + 1, t, i + 1)
    ELSE 0

\* 'a|b|c' at i: the first alternative, in order, that matches there.
alternation_match(alts, new, t, i) ==
    LET ok == {a \in 1..Len(alts) : t[i] = alts[a][1] /\ literal_end(alts[a], 1, t, i) # 0}
    IN  IF ok = {} THEN NoMatch
        ELSE [end |-> literal_end(alts[Min(ok)], 1, t, i), repl |-> new]

\* r'([\w<>\s]*[\w>])::([\w<][\w<>\s]*)' -> r'\1.\2' at i.  No character of the first
\* group is a ':', so the group is the whole run of [\w<>\s] that starts at i.
scope_match(t, i) ==
    LET e == SkipWhile(ScopeChars, t, i)
    IN  IF /\ e > i
           /\ t[e - 1] \in WordChars \cup {">"}
           /\ HasAt(<<":", ":">>, t, e)
           /\ e + 2 <= Len(t)
           /\ t[e + 2] \in WordChars \cup {"<"}
        THEN LET f == SkipWhile(ScopeChars, t, e + 3)
             IN  [end |-> f, repl |-> SubSeq(t, i, e - 1) \o <<".">> \o SubSeq(t, e + 2, f - 1)]
        ELSE NoMatch

\* r"\n\s*" -> "\n" + indent at i.
newline_match(indent, t, i) ==
    IF i <= Len(t) /\ t[i] = "\n"
    THEN [end |-> SkipWhile(Whitespace, t, i + 1), repl |-> <<"\n">> \o indent]
    ELSE NoMatch

\* DoxygenVisualEnhancement.before_regex, r'[\\@](?:a|e|em)\s+(?P<word>\S+)', at i:
\* the first tag, in order, that is followed by whitespace and then a word.
visual_match(cmd, t, i) ==
    IF i > Len(t) \/ t[i] \notin {"\\", "@"} THEN NoMatch
    ELSE LET word_start(a) == SkipWhile(Whitespace, t, i + 1 + Len(cmd.synonyms[a]))
             ok == {a \in 1..Len(cmd.synonyms) :
                        /\ HasAt(cmd.synonyms[a], t, i + 1)
                        /\ word_start(a) > i + 1 + Len(cmd.synonyms[a])
                        /\ word_start(a) <= Len(t)}
         IN  IF ok = {} THEN NoMatch
             ELSE LET w == word_start(Min(ok))
                      e == SkipUntil(Whitespace, t, w)
                  IN  [end |-> e, repl |-> cmd.before \o SubSeq(t, w, e - 1) \o cmd.after]

\* DoxygenHtmlCommand.before_regex, r'<tag>([\w\W]*?)</tag>', at i: up to the nearest
\* closing tag.
html_match(cmd, tag_name, t, i) ==
    LET open == <<"<">> \o tag_name \o <<">">>
        close == <<"<", "/">> \o tag_name \o <<">">>
    IN  IF ~HasAt(open, t, i) THEN NoMatch
        ELSE LET c == Find(close, t, i + Len(open))
             IN  IF c = 0 THEN NoMatch
                 ELSE [end |-> c + Len(close),
                       repl |-> cmd.before \o SubSeq(t, i + Len(open), c - 1) \o cmd.after]

template_types == << <<"L", "i", "s", "t">>, <<"S", "e", "t">>, <<"D", "i", "c", "t">>, <<"T", "u", "p", "l", "e">>, <<"O", "p", "t", "i", "o", "n", "a", "l">>, <<"P", "o", "i", "n", "t", "e", "r">> >>

\* A template_match that knows List only.
template_match_list_only(t, i) ==
    IF HasAt(<<"L", "i", "s", "t", "<">>, t, i) THEN [end |-> i + 5, repl |-> <<"L", "i", "s", "t", "[">>] ELSE NoMatch

\* r'(List|Set|Dict|Tuple|Optional|Pointer)<' -> r'\1[' at i.
template_match(t, i) ==
    LET a == FirstAlt(template_types, t, i)
    IN  IF a # 0 /\ HasAt(<<"<">>, t, i + Len(template_types[a]))
        THEN [end |-> i + Len(template_types[a]) + 1, repl |-> template_types[a] \o <<"[">>]
        ELSE NoMatch

MatchAt(p, t, i) ==
    CASE p.re = "alternation" -> alternation_match(p.alts, p.new, t, i)
      [] p.re = "scope"       -> scope_match(t, i)
      [] p.re = "newline"     -> newline_match(p.indent, t, i)
      [] p.re = "visual"      -> visual_match(p.cmd, t, i)
      [] p.re = "html"        -> html_match(p.cmd, p.tag_name, t, i)
      [] p.re = "template"    -> template_match(t, i)

\* The characters a match of p can start with.
FirstChars(p) ==
    CASE p.re = "alternation" -> {p.alts[a][1] : a \in 1..Len(p.alts)}
      [] p.re = "scope"       -> ScopeChars
      [] p.re = "newline"     -> {"\n"}
      [] p.re = "visual"      -> {"\\", "@"}
      [] p.re = "html"        -> {"<"}
      [] p.re = "template"    -> {template_types[a][1] : a \in 1..Len(template_types)}

\* re.subn(pattern, replacement, t), from position i on: the matches are found left
\* to right and do not overlap.  The leftmost match starts with one of FirstChars(p);
\* that of the scope pattern, whose first group takes a whole run of [\w<>\s], starts
\* at i or at the start of such a run.
RECURSIVE subn_from(_, _, _)
subn_from(p, t, i) ==
    LET first == FirstChars(p)
        starts == IF p.re = "scope"
                  THEN {j \in i..Len(t) : /\ t[j] \in first
                                          /\ (j = i \/ t[j - 1] \notin first)
                                          /\ MatchAt(p, t, j).end # 0}
                  ELSE {j \in i..Len(t) : t[j] \in first /\ MatchAt(p, t, j).end # 0}
    IN  IF starts = {} THEN [text |-> Drop(t, i), count |-> 0]
        ELSE With(MatchAt(p, t, Min(starts)), LAMBDA m :
             With(subn_from(p, t, m.end), LAMBDA r :
                  [text |-> SubSeq(t, i, Min(starts) - 1) \o m.repl \o r.text,
                   count |-> r.count + 1]))

subn(p, t) == With(t, LAMBDA u : subn_from(p, u, 1))

----------------------------------------------------------------------------
(* The commands: DoxygenSection and its subclasses, the visual commands.   *)

\* DoxygenSection.__init__ (and those of its subclasses): cls is the class that decides
\* before_regex, after_regex and title_line; unsupported tells the classes that mix in
\* DoxygenUnsupportedCommandMixin.
DoxygenSection(cls, synonyms, title, indent, next_lines_extra_indent, hidden, unsupported) ==
    [cls |-> cls,
     tag |-> synonyms[1],
     synonyms |-> synonyms,
     title |-> IF title # <<>> THEN title ELSE capitalize(synonyms[1]),
     indent |-> indent,
     next_lines_extra_indent |-> next_lines_extra_indent,
     hidden |-> hidden,
     unsupported |-> unsupported]

Indent4 == <<" ", " ", " ", " ">>

\* DoxygenTranslator.__init__: self.section_types.
section_types(flags) == <<
    DoxygenSection("Param", << <<"p", "a", "r", "a", "m">> >>, <<"A", "r", "g", "s">>, Indent4, TRUE, FALSE, FALSE),
    DoxygenSection(IF flags.return_includes_type_tag THEN "Labeled" ELSE "Section",
                   << <<"r", "e", "t", "u", "r", "n">> >>, <<"R", "e", "t", "u", "r", "n", "s">>, Indent4, FALSE, FALSE, FALSE),
    DoxygenSection("Untitled", << <<"b", "r", "i", "e", "f">>, <<"s", "h", "o", "r", "t">> >>, <<>>, <<>>, TRUE, FALSE, FALSE),
    DoxygenSection("Labeled", << <<"t", "p", "a", "r", "a", "m">> >>, <<"T", "y", "p", "e", " ", "p", "a", "r", "a", "m", "e", "t", "e", "r", " ", "(", "C", "+", "+", " ", "o", "n", "l", "y", ")">>, Indent4, TRUE,
                   flags.hide_tparam, FALSE),
    DoxygenSection("Labeled", << <<"r", "e", "t", "v", "a", "l">> >>, <<"R", "e", "t", "u", "r", "n", "s">>, Indent4, TRUE, FALSE, FALSE),
    DoxygenSection("Labeled", << <<"e", "x", "c", "e", "p", "t", "i", "o", "n">>, <<"t", "h", "r", "o", "w">>, <<"t", "h", "r", "o", "w", "s">> >>, <<"R", "a", "i", "s", "e", "s">>, Indent4,
                   TRUE, FALSE, FALSE),
    DoxygenSection("Untitled", << <<"o", "v", "e", "r", "l", "o", "a", "d">> >>, <<>>, <<>>, TRUE, FALSE, TRUE),
    DoxygenSection("Section", << <<"r", "e", "m", "a", "r", "k">>, <<"n", "o", "t", "e">> >>, <<"N", "o", "t", "e", "s">>, Indent4, TRUE, FALSE, FALSE),
    DoxygenSection("Section", << <<"s", "e", "e">>, <<"s", "a">> >>, <<"S", "e", "e", " ", "a", "l", "s", "o">>, Indent4, TRUE, FALSE, FALSE),
    DoxygenSection("Section", << <<"a", "u", "t", "h", "o", "r">>, <<"a", "u", "t", "h", "o", "r", "s">> >>, <<>>, Indent4, TRUE, FALSE, FALSE),
    DoxygenSection("Section", << <<"c", "o", "p", "y", "r", "i", "g", "h", "t">> >>, <<>>, Indent4, TRUE, FALSE, FALSE),
    DoxygenSection("Section", << <<"d", "a", "t", "e">> >>, <<>>, Indent4, TRUE, FALSE, FALSE),
    DoxygenSection("Section", << <<"d", "e", "t", "a", "i", "l", "s">> >>, <<>>, Indent4, TRUE, FALSE, FALSE),
    DoxygenSection("Section", << <<"e", "x", "t", "e", "n", "d", "s">> >>, <<>>, Indent4, TRUE, FALSE, FALSE),
    DoxygenSection("Section", << <<"i", "n", "g", "r", "o", "u", "p">> >>, <<"I", "n", " ", "G", "r", "o", "u", "p">>, Indent4, TRUE, FALSE, TRUE) >>

\* DoxygenCustomFormatCommand.__init__: the format r'before\1after' of a visual command.
VisualCommand(cls, synonyms, before, after, unsupported) ==
    [cls |-> cls, tag |-> synonyms[1], synonyms |-> synonyms, before |-> before,
     after |-> after, unsupported |-> unsupported]

\* DoxygenTranslator.__init__: self.visual_commands.
visual_commands == <<
    VisualCommand("Visual", << <<"a">>, <<"e">>, <<"e", "m">> >>, <<"*">>, <<"*">>, FALSE),
    VisualCommand("Visual", << <<"b">> >>, <<"*", "*">>, <<"*", "*">>, FALSE),
    VisualCommand("Visual", << <<"c">> >>, <<BackQuote, BackQuote>>, <<BackQuote, BackQuote>>, FALSE),
    VisualCommand("Html", << <<"b">> >>, <<"*", "*">>, <<"*", "*">>, FALSE),
    VisualCommand("Html", << <<"e", "m">> >>, <<"*">>, <<"*">>, FALSE),
    VisualCommand("Html", << <<"t", "t">> >>, <<BackQuote, BackQuote>>, <<BackQuote, BackQuote>>, FALSE),
    VisualCommand("Visual", << <<"r", "e", "f">> >>, <<"\\", "r", "e", "f", " ">>, <<>>, TRUE),
    VisualCommand("Html", << <<"p", "r", "e">> >>, <<"\n", BackQuote, BackQuote, BackQuote>>, <<"\n", BackQuote, BackQuote, BackQuote, "\n">>, TRUE),
    VisualCommand("Html", << <<"l", "i">> >>, <<"\n", "-", " ">>, <<>>, TRUE) >>

\* ParamSection.tag_regex's r'(?:\[(?:in|out|,)*\])?' at i: the position after it.
RECURSIVE direction_tokens_end(_, _)
direction_tokens_end(t, i) ==
    LET a == FirstAlt(<< <<"i", "n">>, <<"o", "u", "t">>, <<",">> >>, t, i)
    IN  IF a = 0 THEN i ELSE direction_tokens_end(t, i + Len(<< <<"i", "n">>, <<"o", "u", "t">>, <<",">> >>[a]))

direction_end(t, i) ==
    IF HasAt(<<"[">>, t, i) /\ HasAt(<<"]">>, t, direction_tokens_end(t, i + 1))
    THEN direction_tokens_end(t, i + 1) + 1
    ELSE i

\* tag_regex of a section type at i: the position after the tag, 0 when it does not match.
\* DoxygenCommand.tag_regex is r'[\\@](?:tag|synonym|...)': the first of the names, in
\* order, that the text continues with.
tag_regex(kind, t, i) ==
    IF i > Len(t) \/ t[i] \notin {"\\", "@"} THEN 0
    ELSE IF kind.cls = "Param"
         THEN IF HasAt(kind.tag, t, i + 1) THEN direction_end(t, i + 1 + Len(kind.tag)) ELSE 0
    ELSE LET a == FirstAlt(kind.synonyms, t, i + 1)
         IN  IF a = 0 THEN 0 ELSE i + 1 + Len(kind.synonyms[a])

\* re.match(self.before_regex(), section): the end of the match (0: no match) and its
\* groups, an unmatched group being the empty text, as match.expand renders it.
\*   DoxygenSection:        r'{tag}(:?\s+(?P<body>[\w\W]*))?'
\*   DoxygenLabeledSection: r'{tag}(?:\s+(?P<label>\S+))?(?:\s+(?P<body>[\w\W]*))?'
before_regex(kind, t) ==
    LET e == tag_regex(kind, t, 1)
    IN  IF e = 0 THEN [end |-> 0, label |-> <<>>, body |-> <<>>]
        ELSE IF kind.cls \in {"Labeled", "Param"}
        THEN LET w == SkipWhile(Whitespace, t, e)
                 has_label == w > e /\ w <= Len(t)
                 l == IF has_label THEN SkipUntil(Whitespace, t, w) ELSE e
                 b == SkipWhile(Whitespace, t, l)
             IN  [end |-> IF b > l THEN Len(t) + 1 ELSE l,
                  label |-> IF has_label THEN SubSeq(t, w, l - 1) ELSE <<>>,
                  body |-> IF b > l THEN Drop(t, b) ELSE <<>>]
        ELSE LET c == IF HasAt(<<":">>, t, e) THEN e + 1 ELSE e
                 b == SkipWhile(Whitespace, t, c)
             IN  [end |-> IF b > c THEN Len(t) + 1 ELSE e,
                  label |-> <<>>,
                  body |-> IF b > c THEN Drop(t, b) ELSE <<>>]

\* match.expand(self.after_regex()).
after_regex(kind, m) ==
    IF kind.cls \in {"Labeled", "Param"}
    THEN kind.indent \o m.label \o <<":", " ">> \o m.body
    ELSE kind.indent \o m.body

title_line(kind) == IF kind.cls = "Untitled" THEN <<>> ELSE kind.title \o <<":", "\n">>

\* A warn_if_present that does not look at the count.
warn_if_present_unconditional(cmd, count) == <<cmd.tag>>

\* DoxygenUnsupportedCommandMixin.warn_if_present: the tags warnings.warn is called with.
warn_if_present(cmd, count) == IF count > 0 THEN <<cmd.tag>> ELSE <<>>

\* DoxygenSection.translate_n: the text and the count it returns, and (for the history)
\* the position where the match ended.
section_translate_n(kind, section, include_title) ==
    LET m == before_regex(kind, section)
        next_line_indent == IF kind.next_lines_extra_indent
                            THEN kind.indent \o kind.indent ELSE kind.indent
        translation == subn([re |-> "newline", indent |-> next_line_indent],
                            after_regex(kind, m)).text
    IN  IF m.end # 0
        THEN [text |-> IF kind.hidden THEN <<>>
                       ELSE IF include_title THEN <<"\n">> \o title_line(kind) \o translation
                       ELSE translation,
              count |-> 1,
              end |-> m.end]
        ELSE [text |-> section, count |-> 0, end |-> 0]

\* A translate_n that renders the title whatever include_title says.
translate_n_always_titled(kind, section, include_title) ==
    With(section_translate_n(kind, section, TRUE), LAMBDA r :
         [text |-> r.text, count |-> r.count, end |-> r.end,
          warned |-> IF kind.unsupported THEN warn_if_present(kind, r.count) ELSE <<>>])

\* translate_n of a section type: DoxygenSection's, or the override of
\* DoxygenUnsupportedSection and DoxygenUnsupportedUntitledSection, which warns.
translate_n(kind, section, include_title) ==
    With(section_translate_n(kind, section, include_title), LAMBDA r :
         [text |-> r.text, count |-> r.count, end |-> r.end,
          warned |-> IF kind.unsupported THEN warn_if_present(kind, r.count) ELSE <<>>])

\* DoxygenHtmlCommand.translate_n's loop over the lower- and upper-case tag names.
RECURSIVE html_translate_n(_, _, _, _)
html_translate_n(cmd, tag_names, k, r) ==
    IF k > Len(tag_names) THEN r
    ELSE With(subn([re |-> "html", cmd |-> cmd, tag_name |-> tag_names[k]], r.text), LAMBDA s :
              html_translate_n(cmd, tag_names, k + 1,
                               [text |-> s.text, count |-> r.count + s.count]))

\* translate_n of a visual command: DoxygenCommand.translate_n or DoxygenHtmlCommand's.
visual_translate_n(cmd, t) ==
    IF cmd.cls = "Html"
    THEN html_translate_n(cmd,
                          [k \in 1..Len(cmd.synonyms) |-> str_lower(cmd.synonyms[k])]
                              \o [k \in 1..Len(cmd.synonyms) |-> str_upper(cmd.synonyms[k])],
                          1, [text |-> t, count |-> 0])
    ELSE subn([re |-> "visual", cmd |-> cmd], t)

\* translate_n of a visual command, with the warning of the unsupported ones.
visual_command_translate_n(cmd, t) ==
    With(visual_translate_n(cmd, t), LAMBDA s :
         [text |-> s.text, count |-> s.count,
          warned |-> IF cmd.unsupported THEN warn_if_present(cmd, s.count) ELSE <<>>])

\* translate's loop over self.visual_commands, from command k on.
RECURSIVE apply_visual_commands(_, _)
apply_visual_commands(k, r) ==
    IF k > Len(visual_commands) THEN r
    ELSE With(visual_command_translate_n(visual_commands[k], r.text), LAMBDA s :
              apply_visual_commands(k + 1, [text |-> s.text, warned |-> r.warned \o s.warned]))

----------------------------------------------------------------------------
(* cpp2python: the type substitutions and the bracket rewriting.          *)

int_types == << <<"i", "n", "t", "8", "_", "t">>, <<"u", "i", "n", "t", "8", "_", "t">>, <<"i", "n", "t", "1", "6", "_", "t">>, <<"u", "i", "n", "t", "1", "6", "_", "t">>, <<"i", "n", "t", "3", "2", "_", "t">>, <<"u", "i", "n", "t", "3", "2", "_", "t">>,
                <<"i", "n", "t", "6", "4", "_", "t">>, <<"u", "i", "n", "t", "6", "4", "_", "t">>, <<"s", "s", "i", "z", "e", "_", "t">>, <<"s", "i", "z", "e", "_", "t">> >>

string_types == << <<"c", "o", "n", "s", "t", " ", "c", "h", "a", "r", " ", "*">>, <<"c", "o", "n", "s", "t", " ", "c", "h", "a", "r", "1", "6", "_", "t", " ", "*">>, <<"c", "o", "n", "s", "t", " ", "c", "h", "a", "r", "3", "2", "_", "t", " ", "*">>,
                   <<"c", "o", "n", "s", "t", " ", "w", "c", "h", "a", "r", "_", "t", " ", "*">>, <<"s", "t", "d", ":", ":", "s", "t", "r", "i", "n", "g">>, <<"s", "t", "d", ":", ":", "u", "1", "6", "s", "t", "r", "i", "n", "g">>,
                   <<"s", "t", "d", ":", ":", "u", "3", "2", "s", "t", "r", "i", "n", "g">>, <<"s", "t", "d", ":", ":", "w", "s", "t", "r", "i", "n", "g">> >>

list_types == << <<"s", "t", "d", ":", ":", "v", "e", "c", "t", "o", "r">>, <<"s", "t", "d", ":", ":", "d", "e", "q", "u", "e">>, <<"s", "t", "d", ":", ":", "l", "i", "s", "t">>, <<"s", "t", "d", ":", ":", "a", "r", "r", "a", "y">>, <<"s", "t", "d", ":", ":", "v", "a", "l", "a", "r", "r", "a", "y">> >>

set_types == << <<"s", "t", "d", ":", ":", "s", "e", "t">>, <<"s", "t", "d", ":", ":", "u", "n", "o", "r", "d", "e", "r", "e", "d", "_", "s", "e", "t">> >>

dict_types == << <<"s", "t", "d", ":", ":", "m", "a", "p">>, <<"s", "t", "d", ":", ":", "u", "n", "o", "r", "d", "e", "r", "e", "d", "_", "m", "a", "p">> >>

tuple_types == << <<"s", "t", "d", ":", ":", "p", "a", "i", "r">>, <<"s", "t", "d", ":", ":", "t", "u", "p", "l", "e">> >>

optional_types == << <<"s", "t", "d", ":", ":", "o", "p", "t", "i", "o", "n", "a", "l">>, <<"s", "t", "d", ":", ":", "e", "x", "p", "e", "r", "i", "m", "e", "n", "t", "a", "l", ":", ":", "o", "p", "t", "i", "o", "n", "a", "l">>, <<"b", "o", "o", "s", "t", ":", ":", "o", "p", "t", "i", "o", "n", "a", "l">> >>

pointer_types == << <<"s", "t", "d", ":", ":", "u", "n", "i", "q", "u", "e", "_", "p", "t", "r">>, <<"s", "t", "d", ":", ":", "s", "h", "a", "r", "e", "d", "_", "p", "t", "r">> >>

Sub(alts, new) == [re |-> "alternation", alts |-> alts, new |-> new]

\* The class attribute type_substitutions as the class statement leaves it: its keys in
\* order (a key is named here by its first alternative), and the rule of each key.
BaseSubstitutions == << "true", "false", "std::nullopt", "double", "int8_t", "const char *",
                        "std::vector", "std::set", "std::map", "std::pair", "std::optional",
                        "std::unique_ptr", "std::exception", "std::bad_alloc",
                        "std::domain_error", "std::out_of_range", "std::overflow_error",
                        "pybind11::stop_iteration", "pybind11::key_error" >>

ScopeKey == "scope"

Rule(key) ==
    CASE key = "true" -> Sub(<< <<"t", "r", "u", "e">> >>, <<"T", "r", "u", "e">>)
      [] key = "false" -> Sub(<< <<"f", "a", "l", "s", "e">> >>, <<"F", "a", "l", "s", "e">>)
      [] key = "std::nullopt" -> Sub(<< <<"s", "t", "d", ":", ":", "n", "u", "l", "l", "o", "p", "t">>, <<"b", "o", "o", "s", "t", ":", ":", "n", "o", "n", "e">> >>, <<"N", "o", "n", "e">>)
      [] key = "double" -> Sub(<< <<"d", "o", "u", "b", "l", "e">> >>, <<"f", "l", "o", "a", "t">>)
      [] key = "int8_t" -> Sub(int_types, <<"i", "n", "t">>)
      [] key = "const char *" -> Sub(string_types, <<"s", "t", "r">>)
      [] key = "std::vector" -> Sub(list_types, <<"L", "i", "s", "t">>)
      [] key = "std::set" -> Sub(set_types, <<"S", "e", "t">>)
      [] key = "std::map" -> Sub(dict_types, <<"D", "i", "c", "t">>)
      [] key = "std::pair" -> Sub(tuple_types, <<"T", "u", "p", "l", "e">>)
      [] key = "std::optional" -> Sub(optional_types, <<"O", "p", "t", "i", "o", "n", "a", "l">>)
      [] key = "std::unique_ptr" -> Sub(pointer_types, <<"P", "o", "i", "n", "t", "e", "r">>)
      [] key = "std::exception" -> Sub(<< <<"s", "t", "d", ":", ":", "e", "x", "c", "e", "p", "t", "i", "o", "n">> >>, <<"R", "u", "n", "t", "i", "m", "e", "E", "r", "r", "o", "r">>)
      [] key = "std::bad_alloc" -> Sub(<< <<"s", "t", "d", ":", ":", "b", "a", "d", "_", "a", "l", "l", "o", "c">> >>, <<"M", "e", "m", "o", "r", "y", "E", "r", "r", "o", "r">>)
      [] key = "std::domain_error" ->
            Sub(<< <<"s", "t", "d", ":", ":", "d", "o", "m", "a", "i", "n", "_", "e", "r", "r", "o", "r">>, <<"s", "t", "d", ":", ":", "l", "e", "n", "g", "t", "h", "_", "e", "r", "r", "o", "r">>, <<"s", "t", "d", ":", ":", "i", "n", "v", "a", "l", "i", "d", "_", "a", "r", "g", "u", "m", "e", "n", "t">>,
                   <<"s", "t", "d", ":", ":", "r", "a", "n", "g", "e", "_", "e", "r", "r", "o", "r">>, <<"p", "y", "b", "i", "n", "d", "1", "1", ":", ":", "v", "a", "l", "u", "e", "_", "e", "r", "r", "o", "r">> >>, <<"V", "a", "l", "u", "e", "E", "r", "r", "o", "r">>)
      [] key = "std::out_of_range" ->
            Sub(<< <<"s", "t", "d", ":", ":", "o", "u", "t", "_", "o", "f", "_", "r", "a", "n", "g", "e">>, <<"p", "y", "b", "i", "n", "d", "1", "1", ":", ":", "i", "n", "d", "e", "x", "_", "e", "r", "r", "o", "r">> >>, <<"I", "n", "d", "e", "x", "E", "r", "r", "o", "r">>)
      [] key = "std::overflow_error" -> Sub(<< <<"s", "t", "d", ":", ":", "o", "v", "e", "r", "f", "l", "o", "w", "_", "e", "r", "r", "o", "r">> >>, <<"O", "v", "e", "r", "f", "l", "o", "w", "E", "r", "r", "o", "r">>)
      [] key = "pybind11::stop_iteration" ->
            Sub(<< <<"p", "y", "b", "i", "n", "d", "1", "1", ":", ":", "s", "t", "o", "p", "_", "i", "t", "e", "r", "a", "t", "i", "o", "n">> >>, <<"S", "t", "o", "p", "I", "t", "e", "r", "a", "t", "i", "o", "n">>)
      [] key = "pybind11::key_error" -> Sub(<< <<"p", "y", "b", "i", "n", "d", "1", "1", ":", ":", "k", "e", "y", "_", "e", "r", "r", "o", "r">> >>, <<"K", "e", "y", "E", "r", "r", "o", "r">>)
      [] key = ScopeKey -> [re |-> "scope"]

\* cpp2python's first loop: every rule of the table, in the table's order, from rule k on.
RECURSIVE substitute(_, _, _)
substitute(subs, k, t) ==
    IF k > Len(subs) THEN t
    ELSE With(subn(Rule(subs[k]), t).text, LAMBDA u : substitute(subs, k + 1, u))

\* str.split(sep) for a one-character sep.
RECURSIVE str_split(_, _)
str_split(t, sep) ==
    LET i == SkipUntil({sep}, t, 1)
    IN  IF i > Len(t) THEN <<t>>
        ELSE <<SubSeq(t, 1, i - 1)>> \o str_split(Drop(t, i + 1), sep)

\* A span_step that closes a bracket at every '>'.
span_step_always_closes(d, span) ==
    With(subn([re |-> "template"], span), LAMBDA r :
         [depth |-> d + r.count - 1, out |-> r.text \o <<"]">>, opened |-> r.count, closed |-> 1,
          met_at |-> d + r.count])

\* The body of cpp2python's loop over spans[:-1]: the depth the '>' is met at, the new
\* depth, the text appended, and the brackets rewritten.
span_step(d, span) ==
    With(subn([re |-> "template"], span), LAMBDA r :
         IF d + r.count > 0
         THEN [depth |-> d + r.count - 1, out |-> r.text \o <<"]">>, opened |-> r.count, closed |-> 1,
               met_at |-> d + r.count]
         ELSE [depth |-> d + r.count, out |-> r.text \o <<">">>, opened |-> r.count, closed |-> 0,
               met_at |-> d + r.count])

RECURSIVE rebracket(_, _, _)
rebracket(sp, k, d) ==
    IF k >= Len(sp) THEN sp[Len(sp)]
    ELSE With(span_step(d, sp[k]), LAMBDA s : s.out \o rebracket(sp, k + 1, s.depth))

cpp2python(subs, t) ==
    With(str_split(substitute(subs, 1, t), ">"), LAMBDA sp : rebracket(sp, 1, 0))

----------------------------------------------------------------------------
(* DoxygenTranslator.translate.                                            *)

\* The lookahead (?={sec_tag}) of translate's split: some section type's tag_regex
\* matches at i.
section_indicator_at(types, t, i) == \E k \in 1..Len(types) : tag_regex(types[k], t, i) # 0

\* re.split(r"\n+(?:\n|(?={sec_tag}))", comment): a run of newlines separates two sections
\* when it holds two newlines or more, or when a section tag follows it.
RECURSIVE re_split(_, _, _)
re_split(types, t, i) ==
    LET seps == {j \in i..Len(t) :
                    /\ t[j] = "\n"
                    /\ (j = i \/ t[j - 1] # "\n")
                    /\ \/ SkipWhile({"\n"}, t, j) - j >= 2
                       \/ section_indicator_at(types, t, SkipWhile({"\n"}, t, j))}
    IN  IF seps = {} THEN <<Drop(t, i)>>
        ELSE <<SubSeq(t, i, Min(seps) - 1)>>
                 \o re_split(types, t, SkipWhile({"\n"}, t, Min(seps)))

\* re.fullmatch(r'\s?', section).
fullmatch_space(t) == Len(t) = 0 \/ (Len(t) = 1 /\ t[1] \in Whitespace)

\* translate's inner loop over self.section_types, from type j on: the section as the
\* first type that matches leaves it, the index of that type (0: none matched), and
\* what the types tried warned about.
RECURSIVE try_section_types(_, _, _, _, _)
try_section_types(types, j, previous, section, warned_so_far) ==
    IF j > Len(types)
    THEN [text |-> section, kind |-> 0, end |-> 0, warned |-> warned_so_far]
    ELSE With(translate_n(types[j], section, j # previous), LAMBDA r :
              IF r.count # 0
              THEN [text |-> r.text, kind |-> j, end |-> r.end, warned |-> warned_so_far \o r.warned]
              ELSE try_section_types(types, j + 1, previous, r.text, warned_so_far \o r.warned))

\* The body of translate's loop over the sections, for one section: what it leaves in
\* previous_section_type, what it appends to reformated, what it warns about, and
\* (for the history) the section, the section type that matched (0: none), whether its
\* title was asked for, where the match ended and the section after the visual commands.
loop_body(flags, subs, previous, section) ==
    With(try_section_types(section_types(flags), 1, previous, section, <<>>), LAMBDA r :
    With(apply_visual_commands(1,
             [text |-> IF r.kind # 0 THEN r.text ELSE <<"\n">> \o r.text, warned |-> r.warned]),
         LAMBDA v :
        [previous_section_type |-> IF r.kind # 0 THEN r.kind ELSE previous,
         appended |-> IF fullmatch_space(v.text) THEN <<>>
                      ELSE cpp2python(subs, v.text) \o <<"\n">>,
         warned |-> v.warned,
         section |-> section,
         kind |-> r.kind,
         include_title |-> r.kind # 0 /\ r.kind # previous,
         end |-> r.end,
         rewritten |-> v.text]))

\* translate as one call: the loop from section k on.
RECURSIVE translate_from(_, _, _, _, _)
translate_from(flags, subs, secs, k, previous) ==
    IF k > Len(secs) THEN <<>>
    ELSE With(loop_body(flags, subs, previous, secs[k]), LAMBDA b :
              b.appended \o translate_from(flags, subs, secs, k + 1, b.previous_section_type))

translate(flags, subs, c) ==
    With(re_split(section_types(flags), c, 1), LAMBDA secs : translate_from(flags, subs, secs, 1, 0))

----------------------------------------------------------------------------
(* The inputs.                                                             *)

MaxParts == 3

MaxTranslators == 2

MaxCalls == 2

MaxPieces == 5

Flags == [return_includes_type_tag : BOOLEAN, translate_scope_operator : BOOLEAN,
          hide_tparam : BOOLEAN]

DefaultFlags == [return_includes_type_tag |-> FALSE, translate_scope_operator |-> TRUE,
                 hide_tparam |-> TRUE]

\* The lines a comment is made of.
Items == << <<"@", "b", "r", "i", "e", "f", " ", "D", "o", "e", "s", " ", "a", " ", "t", "h", "i", "n", "g", ".">>,
            <<"@", "p", "a", "r", "a", "m", " ", "x", " ", "t", "h", "e", " ", "i", "n", "p", "u", "t", "\n", "@", "p", "a", "r", "a", "m", " ", "y", " ", "t", "h", "e", " ", "o", "u", "t", "p", "u", "t">>,
            <<"@", "r", "e", "t", "u", "r", "n", " ", "t", "h", "e", " ", "r", "e", "s", "u", "l", "t">>,
            <<"@", "i", "n", "g", "r", "o", "u", "p", " ", "f", "o", "o">>,
            <<"A", ":", ":", "B", ",", " ", "s", "e", "e", " ", "@", "i", "n", "g", "r", "o", "u", "p", " ", "f", "o", "o">>,
            <<" ">>,
            <<"@", "t", "h", "r", "o", "w", "s", " ", "E", " ", "b", "a", "d">> >>

Separators == { <<"\n">>, <<"\n", "\n">> }

RECURSIVE Join(_, _)
Join(parts, sep) ==
    IF parts = <<>> THEN <<>>
    ELSE IF Len(parts) = 1 THEN parts[1]
    ELSE parts[1] \o sep \o Join(Tail(parts), sep)

Comments ==
    UNION {{Join([k \in 1..n |-> Items[f[k]]], sep) : f \in [1..n -> 1..Len(Items)], sep \in Separators}
           : n \in 0..MaxParts}

\* The comments of the specification in which several instances share the table.
SharedComments == { <<"A", ":", ":", "B", ",", " ", "s", "e", "e", " ", "@", "i", "n", "g", "r", "o", "u", "p", " ", "f", "o", "o">>, <<"@", "r", "e", "t", "u", "r", "n", " ", "t", "h", "e", " ", "r", "e", "s", "u", "l", "t">> }

\* The pieces a text given to cpp2python is made of, and the native type names.
Pieces == << <<"L", "i", "s", "t", "<">>, <<"D", "i", "c", "t", "<">>, <<"s", "t", "r", ",", "i", "n", "t">>, <<">">>, <<"x", "<">> >>

PieceTexts ==
    UNION {{Flatten([k \in 1..n |-> Pieces[f[k]]]) : f \in [1..n -> 1..Len(Pieces)]}
           : n \in 0..MaxPieces}

Families == << [types |-> int_types, target |-> <<"i", "n", "t">>],
               [types |-> string_types, target |-> <<"s", "t", "r">>],
               [types |-> list_types, target |-> <<"L", "i", "s", "t">>],
               [types |-> set_types, target |-> <<"S", "e", "t">>],
               [types |-> dict_types, target |-> <<"D", "i", "c", "t">>],
               [types |-> tuple_types, target |-> <<"T", "u", "p", "l", "e">>],
               [types |-> optional_types, target |-> <<"O", "p", "t", "i", "o", "n", "a", "l">>],
               [types |-> pointer_types, target |-> <<"P", "o", "i", "n", "t", "e", "r">>] >>

NativeTypes == UNION {Range(Families[k].types) : k \in 1..Len(Families)}

----------------------------------------------------------------------------
(* The state machine.                                                      *)

NoTranslate ==
    /\ self = 0
    /\ comment = <<>>
    /\ sections = <<>>
    /\ idx = 0
    /\ reformated = <<>>
    /\ previous_section_type = 0
    /\ warned = <<>>
    /\ trace = <<>>

NoCpp ==
    /\ text = <<>>
    /\ spans = <<>>
    /\ span_i = 0
    /\ depth = 0
    /\ rebracketed_text = <<>>
    /\ opened = 0
    /\ closed = 0
    /\ closes = <<>>

\* DoxygenTranslator.__init__'s effect on the class attribute: a dict keeps the
\* position of a key that is assigned again.
construct_substitutions(subs, flags) ==
    IF flags.translate_scope_operator /\ ScopeKey \notin Range(subs)
    THEN Append(subs, ScopeKey)
    ELSE subs

\* The state after the module is loaded and one translator constructed.  No comment of
\* Comments holds a tparam section, so hide_tparam keeps its default here.
Init ==
    /\ \E flags \in {f \in Flags : f.hide_tparam = DefaultFlags.hide_tparam} :
          /\ translators = <<flags>>
          /\ type_substitutions = construct_substitutions(BaseSubstitutions, flags)
    /\ pc = "idle"
    /\ calls = <<>>
    /\ NoTranslate
    /\ NoCpp

\* translate, up to its loop: the split and the loop's variables.
StartTranslate ==
    /\ pc = "idle"
    /\ \E i \in 1..Len(translators), c \in Comments :
          /\ self' = i
          /\ comment' = c
          /\ sections' = re_split(section_types(translators[i]), c, 1)
    /\ idx' = 0
    /\ reformated' = <<>>
    /\ previous_section_type' = 0
    /\ warned' = <<>>
    /\ trace' = <<>>
    /\ pc' = "loop"
    /\ UNCHANGED <<type_substitutions, translators, calls>>
    /\ UNCHANGED cpp_vars

\* One iteration of translate's loop over the sections.
TranslateSection ==
    /\ pc = "loop"
    /\ idx < Len(sections)
    /\ \E b \in {loop_body(translators[self], type_substitutions, previous_section_type,
                          sections[idx + 1])} :
           /\ reformated' = reformated \o b.appended
           /\ previous_section_type' = b.previous_section_type
           /\ warned' = warned \o b.warned
           /\ trace' = Append(trace, b)
    /\ idx' = idx + 1
    /\ UNCHANGED <<type_substitutions, translators, calls, pc, self, comment, sections>>
    /\ UNCHANGED cpp_vars

\* translate returns reformated.
ReturnTranslate ==
    /\ pc = "loop"
    /\ idx = Len(sections)
    /\ pc' = "done"
    /\ UNCHANGED <<type_substitutions, translators, calls>>
    /\ UNCHANGED translate_vars
    /\ UNCHANGED cpp_vars

\* The caller takes the result; the next call may follow.
NextCall ==
    /\ pc = "done"
    /\ pc' = "idle"
    /\ self' = 0
    /\ comment' = <<>>
    /\ sections' = <<>>
    /\ idx' = 0
    /\ reformated' = <<>>
    /\ previous_section_type' = 0
    /\ warned' = <<>>
    /\ trace' = <<>>
    /\ UNCHANGED <<type_substitutions, translators, calls>>
    /\ UNCHANGED cpp_vars

Next == StartTranslate \/ TranslateSection \/ ReturnTranslate \/ NextCall

Spec == Init /\ [][Next]_vars

----------------------------------------------------------------------------
(* Several translators: __init__ writes to the class attribute they share. *)

InitShared ==
    /\ translators = <<>>
    /\ type_substitutions = BaseSubstitutions
    /\ pc = "idle"
    /\ calls = <<>>
    /\ NoTranslate
    /\ NoCpp

\* DoxygenTranslator(...): __init__.
Construct ==
    /\ Len(translators) < MaxTranslators
    /\ \E flags \in Flags :
          /\ translators' = Append(translators, flags)
          /\ type_substitutions' = construct_substitutions(type_substitutions, flags)
    /\ UNCHANGED <<pc, calls>>
    /\ UNCHANGED translate_vars
    /\ UNCHANGED cpp_vars

\* translator(comment): __call__, that is translate, from call to return.
Call ==
    /\ Len(calls) < MaxCalls
    /\ \E i \in 1..Len(translators), c \in SharedComments :
          \E r \in {translate(translators[i], type_substitutions, c)} :
              calls' = Append(calls, [inst |-> i, comment |-> c, result |-> r])
    /\ UNCHANGED <<type_substitutions, translators, pc>>
    /\ UNCHANGED translate_vars
    /\ UNCHANGED cpp_vars

NextShared == Construct \/ Call

SpecShared == InitShared /\ [][NextShared]_vars

----------------------------------------------------------------------------
(* cpp2python, step by step.                                               *)

InitCpp ==
    /\ \E scope \in BOOLEAN :
          LET flags == [DefaultFlags EXCEPT !.translate_scope_operator = scope]
          IN  /\ translators = <<flags>>
              /\ type_substitutions = construct_substitutions(BaseSubstitutions, flags)
    /\ pc = "cpp_call"
    /\ calls = <<>>
    /\ NoTranslate
    /\ text \in PieceTexts \cup NativeTypes
    /\ spans = <<>>
    /\ span_i = 0
    /\ depth = 0
    /\ rebracketed_text = <<>>
    /\ opened = 0
    /\ closed = 0
    /\ closes = <<>>

\* cpp2python up to its second loop: the substitutions, and the loop's variables.
CppSubstitute ==
    /\ pc = "cpp_call"
    /\ spans' = str_split(substitute(type_substitutions, 1, text), ">")
    /\ depth' = 0
    /\ rebracketed_text' = <<>>
    /\ span_i' = 0
    /\ pc' = "cpp_loop"
    /\ UNCHANGED <<type_substitutions, translators, calls, text, opened, closed, closes>>
    /\ UNCHANGED translate_vars

\* One iteration of the loop over spans[:-1].
CppSpan ==
    /\ pc = "cpp_loop"
    /\ span_i < Len(spans) - 1
    /\ \E s \in {span_step(depth, spans[span_i + 1])} :
          /\ depth' = s.depth
          /\ rebracketed_text' = rebracketed_text \o s.out
          /\ opened' = opened + s.opened
          /\ closed' = closed + s.closed
          /\ closes' = Append(closes, [depth |-> s.met_at, emitted |-> s.out[Len(s.out)]])
    /\ span_i' = span_i + 1
    /\ UNCHANGED <<type_substitutions, translators, calls, pc, text, spans>>
    /\ UNCHANGED translate_vars

\* The last span is added and the text returned.
CppReturn ==
    /\ pc = "cpp_loop"
    /\ span_i = Len(spans) - 1
    /\ rebracketed_text' = rebracketed_text \o spans[Len(spans)]
    /\ pc' = "cpp_done"
    /\ UNCHANGED <<type_substitutions, translators, calls, text, spans, span_i, depth, opened,
                   closed, closes>>
    /\ UNCHANGED translate_vars

NextCpp == CppSubstitute \/ CppSpan \/ CppReturn

SpecCpp == InitCpp /\ [][NextCpp]_vars

----------------------------------------------------------------------------
(* The properties.                                                         *)

\* The section types of the translator translate runs on.
types == section_types(translators[self])

\* A section type that renders a title: it has one and is not hidden.
Titled(kind) == kind.cls # "Untitled" /\ ~kind.hidden

\* The text begins with the tag name syn, marked by '@' or a backslash.
BeginsWithTag(syn, t) == Len(t) > Len(syn) /\ t[1] \in {"\\", "@"} /\ HasAt(syn, t, 2)

\* The output of section k carries the title of the section type kind at its start.
TitleRendered(kind, k) == HasAt(<<"\n">> \o title_line(kind), trace[k].appended, 1)

\* What translate returned is what its sections appended, in the order of the sections.
InInputOrder ==
    /\ reformated = Flatten([k \in 1..Len(trace) |-> trace[k].appended])
    /\ \A k \in 1..Len(trace) : trace[k].section = sections[k]

\* C1: in every run of two or more consecutive sections of one titled section type
\* (the run starting where the type of the preceding section differs), the title is
\* rendered once, before the first entry, every entry is indented by the type's
\* indent, and the entries keep the order of the input.
C1_RunSharesOneTitle ==
    pc = "done" =>
        /\ InInputOrder
        /\ \A i \in 1..Len(trace) : \A j \in (i + 1)..Len(trace) :
              ( /\ trace[i].kind # 0
                /\ Titled(types[trace[i].kind])
                /\ (i = 1 \/ trace[i - 1].kind # trace[i].kind)
                /\ \A m \in i..j : trace[m].kind = trace[i].kind )
              => LET kind == types[trace[i].kind]
                 IN  /\ HasAt(<<"\n">> \o title_line(kind) \o kind.indent, trace[i].appended, 1)
                     /\ \A m \in (i + 1)..j :
                           /\ HasAt(kind.indent, trace[m].appended, 1)
                           /\ ~Contains(title_line(kind), trace[m].appended)

\* The number of warnings about ingroup among the warnings w.
IngroupWarnings(w) == Cardinality({k \in 1..Len(w) : w[k] = <<"i", "n", "g", "r", "o", "u", "p">>})

\* C2 as stated: translating a text that contains `@ingroup foo` warns about ingroup
\* exactly once, and the text returned does not contain `@ingroup`.
C2_AnyMentionWarnsOnce ==
    (pc = "done" /\ Contains(<<"@", "i", "n", "g", "r", "o", "u", "p", " ", "f", "o", "o">>, comment))
        => /\ IngroupWarnings(warned) = 1
           /\ ~Contains(<<"@", "i", "n", "g", "r", "o", "u", "p">>, reformated)

\* C2 as amended: translate warns about ingroup once for each section that begins with
\* the ingroup tag and for no other section; the output of such a section that holds
\* no other tag marker does not contain `@ingroup` (so `@ingroup foo` alone gives one
\* warning and the text "In Group:" / "    foo"); an `@ingroup` inside a plain paragraph
\* gives no warning and stays in the output.
C2_WarnsOncePerIngroupSection ==
    pc = "done" =>
        /\ IngroupWarnings(warned)
               = Cardinality({k \in 1..Len(sections) : BeginsWithTag(<<"i", "n", "g", "r", "o", "u", "p">>, sections[k])})
        /\ \A k \in 1..Len(trace) :
              /\ IngroupWarnings(trace[k].warned)
                     = IF BeginsWithTag(<<"i", "n", "g", "r", "o", "u", "p">>, trace[k].section) THEN 1 ELSE 0
              /\ ( /\ BeginsWithTag(<<"i", "n", "g", "r", "o", "u", "p">>, trace[k].section)
                   /\ Count("@", trace[k].section) + Count("\\", trace[k].section) = 1 )
                 => ~Contains(<<"@", "i", "n", "g", "r", "o", "u", "p">>, trace[k].appended)
              /\ (trace[k].kind = 0 /\ Contains(<<"@", "i", "n", "g", "r", "o", "u", "p">>, trace[k].section))
                 => Contains(<<"@", "i", "n", "g", "r", "o", "u", "p">>, trace[k].appended)
        /\ comment = <<"@", "i", "n", "g", "r", "o", "u", "p", " ", "f", "o", "o">>
              => /\ warned = << <<"i", "n", "g", "r", "o", "u", "p">> >>
                 /\ reformated = <<"\n", "I", "n", " ", "G", "r", "o", "u", "p", ":", "\n", " ", " ", " ", " ", "f", "o", "o", "\n">>

\* C2's case: a comment with an ingroup section and a plain paragraph that mentions
\* `@ingroup foo` has been translated, with one warning, the mention still there.
C2_Witness ==
    /\ pc = "done"
    /\ comment = <<"@", "i", "n", "g", "r", "o", "u", "p", " ", "f", "o", "o", "\n", "\n", "A", ":", ":", "B", ",", " ", "s", "e", "e", " ", "@", "i", "n", "g", "r", "o", "u", "p", " ", "f", "o", "o">>
    /\ warned = << <<"i", "n", "g", "r", "o", "u", "p">> >>
    /\ Contains(<<"s", "e", "e", " ", "@", "i", "n", "g", "r", "o", "u", "p", " ", "f", "o", "o">>, reformated)
    /\ HasAt(<<"\n", "I", "n", " ", "G", "r", "o", "u", "p", ":", "\n", " ", " ", " ", " ", "f", "o", "o", "\n">>, reformated, 1)

OnlyWhitespace(t) == \A k \in 1..Len(t) : t[k] \in Whitespace

\* C3: a section that is only whitespace after the rewriting, of any length, appends
\* nothing; every other section appends its type-substituted text and one newline.
C3_WhitespaceSectionsDropped ==
    \A k \in 1..Len(trace) :
        trace[k].appended = IF OnlyWhitespace(trace[k].rewritten) THEN <<>>
                            ELSE cpp2python(type_substitutions, trace[k].rewritten) \o <<"\n">>

\* C4: two calls of translate on the same instance with the same comment return the
\* same text, whatever was constructed in between, and an instance constructed with
\* translate_scope_operator=False never returns `A.B` for `A::B`.
C4_ResultDependsOnInstanceOnly ==
    /\ \A a, b \in 1..Len(calls) :
          (calls[a].inst = calls[b].inst /\ calls[a].comment = calls[b].comment)
              => calls[a].result = calls[b].result
    /\ \A a \in 1..Len(calls) :
          ~translators[calls[a].inst].translate_scope_operator
              => ~Contains(<<"A", ".", "B">>, calls[a].result)

\* Every '<' of t directly follows a template name, and the angle brackets of t are
\* balanced and properly nested.
Balance(t, j) == Count("<", SubSeq(t, 1, j)) - Count(">", SubSeq(t, 1, j))

WellBracketed(t) ==
    /\ \A j \in 1..Len(t) :
          t[j] = "<" => \E a \in 1..Len(template_types) :
                            /\ j > Len(template_types[a])
                            /\ HasAt(template_types[a], t, j - Len(template_types[a]))
    /\ \A j \in 1..Len(t) : Balance(t, j) >= 0
    /\ Balance(t, Len(t)) = 0

Bracketed(t) == [k \in 1..Len(t) |-> IF t[k] = "<" THEN "[" ELSE IF t[k] = ">" THEN "]" ELSE t[k]]

\* C5: when every '<' of the text the bracket rewriting gets follows a template name
\* and the angle brackets are balanced and nested, cpp2python returns that text with
\* every '<' as '[' and every '>' as ']' and nothing else changed, and it has produced
\* as many '[' as ']'.
C5_BalancedBracketsRewritten ==
    (pc = "cpp_done" /\ WellBracketed(Join(spans, <<">">>)))
        => /\ rebracketed_text = Bracketed(Join(spans, <<">">>))
           /\ opened = closed
           /\ Count("[", rebracketed_text) = Count("]", rebracketed_text)

\* C5's case: `List<Dict<str,int>>` has become `List[Dict[str,int]]`.
C5_Witness ==
    /\ pc = "cpp_done"
    /\ text = <<"L", "i", "s", "t", "<", "D", "i", "c", "t", "<", "s", "t", "r", ",", "i", "n", "t", ">", ">">>
    /\ rebracketed_text = <<"L", "i", "s", "t", "[", "D", "i", "c", "t", "[", "s", "t", "r", ",", "i", "n", "t", "]", "]">>
    /\ opened = 2

ExampleComment ==
    <<"@", "b", "r", "i", "e", "f", " ", "D", "o", "e", "s", " ", "a", " ", "t", "h", "i", "n", "g", ".", "\n", "@", "p", "a", "r", "a", "m", " ", "x", " ", "t", "h", "e", " ", "i", "n", "p", "u", "t", "\n", "@", "p", "a", "r", "a", "m", " ", "y", " ", "t", "h", "e", " ", "o", "u", "t", "p", "u", "t", "\n", "@", "r", "e", "t", "u", "r", "n", " ", "t", "h", "e", " ", "r", "e", "s", "u", "l", "t">>

ExampleDocstring ==
    <<"\n", "D", "o", "e", "s", " ", "a", " ", "t", "h", "i", "n", "g", ".", "\n", "\n", "A", "r", "g", "s", ":", "\n", " ", " ", " ", " ", "x", ":", " ", "t", "h", "e", " ", "i", "n", "p", "u", "t", "\n", " ", " ", " ", " ", "y", ":", " ", "t", "h", "e", " ", "o", "u", "t", "p", "u", "t", "\n", "\n", "R", "e", "t", "u", "r", "n", "s", ":", "\n", " ", " ", " ", " ", "t", "h", "e", " ", "r", "e", "s", "u", "l", "t", "\n">>

\* C6: with the default flags the example comment becomes the brief text with no
\* heading and no indent, then one `Args:` heading over `x: the input` and
\* `y: the output`, each indented by four spaces, then one `Returns:` heading over
\* `the result`, indented by four spaces; and in every translation the output is what
\* the sections produced, in the order of the sections of the input.
C6_ExampleAndOrder ==
    /\ pc \in {"loop", "done"} => InInputOrder
    /\ (pc = "done" /\ comment = ExampleComment /\ translators[self] = DefaultFlags)
           => reformated = ExampleDocstring

\* C6's case: the example comment has been translated with the default flags.
C6_Witness ==
    /\ pc = "done"
    /\ comment = ExampleComment
    /\ translators[self] = DefaultFlags
    /\ Len(trace) = 4
    /\ Find(<<"D", "o", "e", "s", " ", "a", " ", "t", "h", "i", "n", "g", ".">>, reformated, 1) < Find(<<"A", "r", "g", "s", ":">>, reformated, 1)
    /\ Find(<<"A", "r", "g", "s", ":">>, reformated, 1) < Find(<<"R", "e", "t", "u", "r", "n", "s", ":">>, reformated, 1)

\* C7: the title of a section that matches a titled section type is rendered exactly
\* when that type differs from the type that matched the section just before it, a
\* section that matched no type counting as a different type.
C7_TitleIffKindDiffersFromPreceding ==
    \A k \in 1..Len(trace) :
        (trace[k].kind # 0 /\ Titled(types[trace[k].kind]))
            => (TitleRendered(types[trace[k].kind], k)
                    <=> (k = 1 \/ trace[k - 1].kind # trace[k].kind))

\* C8: a section `@tag body` (`@tag label body`), for any tag name of a section type
\* that is not hidden, is recognized as that type, and nothing that follows the tag is
\* lost: the match takes the section to its end, so that label and body are rendered.
C8_EveryTagNameKeepsBody ==
    \A k \in 1..Len(trace) : \A K \in 1..Len(types) : \A a \in 1..Len(types[K].synonyms) :
        ( /\ BeginsWithTag(types[K].synonyms[a], trace[k].section)
          /\ trace[k].section[2 + Len(types[K].synonyms[a])] \in Whitespace
          /\ ~types[K].hidden )
        => /\ trace[k].kind = K
           /\ trace[k].end = Len(trace[k].section) + 1

\* C9: cpp2python turns every native type name of a family table into the family's
\* target name, and nothing of the native name remains.
C9_NativeTypesCollapse ==
    pc = "cpp_done" =>
        \A f \in 1..Len(Families) :
            text \in Range(Families[f].types) => rebracketed_text = Families[f].target

\* C10: at every step of the bracket rewriting the depth is not negative and is the
\* number of '<' rewritten to '[' so far minus the number of '>' rewritten to ']' so
\* far; a '>' met at depth zero is emitted as '>', and a '>' is emitted as ']' only
\* when met at a positive depth.
C10_DepthCountsOpenBrackets ==
    pc \in {"cpp_loop", "cpp_done"} =>
        /\ depth >= 0
        /\ depth = opened - closed
        /\ Len(closes) = span_i
        /\ \A k \in 1..Len(closes) :
              /\ closes[k].depth >= 0
              /\ closes[k].depth = 0 => closes[k].emitted = ">"
              /\ closes[k].emitted = "]" => closes[k].depth > 0
              /\ closes[k].emitted \in {">", "]"}
        /\ closed = Cardinality({k \in 1..Len(closes) : closes[k].emitted = "]"})
        /\ pc = "cpp_done" =>
              /\ Count("[", rebracketed_text) = opened + Count("[", Join(spans, <<">">>))
              /\ Count("]", rebracketed_text) = closed + Count("]", Join(spans, <<">">>))

\* C10's case: a '>' was met at depth zero and left as it is, after a bracket had been
\* opened and closed.
C10_Witness ==
    /\ pc = "cpp_done"
    /\ opened > 0
    /\ closed > 0
    /\ \E k \in 1..Len(closes) : closes[k].depth = 0 /\ closes[k].emitted = ">"
    /\ \E k \in 1..Len(closes) : closes[k].depth > 1

====
